---- MODULE Spec2Model ----
(***************************************************************************)
(* A model of the analytical core of the Chile groundwater dashboard       *)
(* (src/app.py): per-well trend estimation and classification, coordinate  *)
(* validation and the map layers, spatial aggregation and the sidebar      *)
(* filters.                                                                 *)
(*                                                                          *)
(* Units.  Dates are day numbers (the loader parses whole calendar dates). *)
(* Water levels are whole centimetres, slopes are exact fractions          *)
(* [num, den] of centimetres per year, so the source's thresholds 0.05,    *)
(* 0.1 and 0.5 m/yr are 5, 10 and 50.  Coordinates are hundredths of a     *)
(* degree.  A fraction with den = 0 is the floating-point NaN.             *)
(***************************************************************************)
EXTENDS Integers, Sequences, FiniteSets, TLC

VARIABLES
    df_history,         \* well_history_data['data']: the loaded history table
    trend,              \* the last run of the well-analysis view (tab 3, column 2)
    np_random,          \* the draws of the generator seeded with 42
    cache,              \* the st.cache_data entries of the loaders
    piezo_file,         \* the workbook in the sidebar's uploader (or none)
    census_file,        \* the census workbook in the sidebar's uploader (or none)
    census_data,        \* the result of load_census_data
    piezo_data,         \* the result of load_piezometric_data
    selected_region,    \* sidebar select box
    selected_shac,      \* sidebar select box
    trend_filter,       \* sidebar multiselect, as the English labels
    df_filtered,        \* the wells that pass the sidebar filters
    overview,           \* the national summary of the overview tab
    agg_level,          \* the radio of the spatial-aggregation tab
    df_display,         \* the summary table that tab shows
    fig_bar,            \* the rows of the bar chart that tab shows
    disk,               \* the water-rights and census workbooks in data/
    dga_water_rights,   \* the result of load_dga_water_rights
    census_2017_points, \* the result of load_census_points(2017)
    census_2024_points, \* the result of load_census_points(2024)
    show,               \* the layer check boxes of the map tab
    well_map,           \* the markers of the map, per layer
    well_selection,     \* the select box of the well-analysis tab and its parse
    language,           \* st.session_state.language
    get_text_result     \* the last call of get_text and what it returned

trendVars == <<df_history, trend>>

sidebarVars == <<piezo_file, piezo_data, selected_region, selected_shac,
                 trend_filter, df_filtered>>

tab1Vars == <<overview>>

censusVars == <<census_file, census_data>>

tab4Vars == <<agg_level, df_display, fig_bar>>

layerVars == <<disk, dga_water_rights, census_2017_points, census_2024_points>>

mapVars == <<show, well_map>>

sessionVars == <<well_selection, language, get_text_result>>

vars == <<df_history, trend, np_random, cache, piezo_file, census_file, census_data,
          piezo_data, selected_region,
          selected_shac, trend_filter, df_filtered, overview, agg_level, df_display,
          fig_bar,
          disk, dga_water_rights, census_2017_points, census_2024_points,
          show, well_map, well_selection, language, get_text_result>>

(***************************************************************************)
(* Missing values and small helpers                                        *)
(***************************************************************************)
\* pandas' missing value (NaN / NaT) in an integer column
NA == 999999

isna(x) == x = NA

notna(x) == x # NA

Abs(x) == IF x < 0 THEN -x ELSE x

RECURSIVE GCD(_, _)
GCD(a, b) == IF b = 0 THEN a ELSE GCD(b, a % b)

\* the exact value num/den, normalised (den > 0, lowest terms); 0/0 is NaN
NaN == [num |-> 0, den |-> 0]

Frac(n, d) ==
    IF d = 0 THEN NaN
    ELSE LET g == GCD(Abs(n), Abs(d))
             s == IF d < 0 THEN -1 ELSE 1
         IN [num |-> (s * n) \div g, den |-> (s * d) \div g]

FracMul(a, b) ==
    IF a.den = 0 \/ b.den = 0 THEN NaN
    ELSE LET p == Frac(a.num, b.den)
             q == Frac(b.num, a.den)
         IN Frac(p.num * q.num, p.den * q.den)

\* float comparisons against a whole threshold t: every comparison with NaN is False
FracGt(a, t) == a.den # 0 /\ a.num > t * a.den

FracLt(a, t) == a.den # 0 /\ a.num < t * a.den

RECURSIVE SumSeq(_)
SumSeq(s) == IF s = <<>> THEN 0 ELSE s[1] + SumSeq(Tail(s))

MinSeq(s) == CHOOSE m \in {s[i] : i \in 1..Len(s)} : \A i \in 1..Len(s) : m <= s[i]

\* all sequences over S of length 0..n
SeqsUpTo(S, n) == UNION {[1..k -> S] : k \in 0..n}

(***************************************************************************)
(* Bounds of the model                                                     *)
(***************************************************************************)
MaxRecords == 3

StationCodes == {"W1", "W2"}

\* day numbers of the measurement dates: 4 years (1461 days) apart
DateValues == {100, 1561, 3022}

\* depths to water in centimetres
LevelValues == {0, 20, 40, 240}

\* rows of the history file.  Station W1 has every complete row and rows whose
\* date did not parse or whose level is empty; the second station, whose rows
\* the estimator must leave out when W1 is analysed, has a few of each.
HistoryRecords ==
    LET Rows(codes, dates, levels) ==
            [Station_Code : codes, Date : dates, Water_Level : levels,
             Latitude : {-3345}, Longitude : {-7065}]
    IN Rows({"W1"}, DateValues, LevelValues)
       \cup Rows({"W1"}, {NA}, {20, NA})
       \cup Rows({"W1"}, {1561}, {NA})
       \cup Rows({"W2"}, {100}, {0})
       \cup Rows({"W2"}, {1561}, {240})
       \cup Rows({"W2"}, {NA}, {20})

(***************************************************************************)
(* create_well_time_series_with_regression                                 *)
(***************************************************************************)
\* a table whose rows were selected from `df` without .copy() and then
\* assigned to: the assignment reaches the rows of `df`
assign_to_view(df, assigned) == assigned

\* df[mask].copy() and df.copy(): the copy has rows of its own, so the table
\* `df` is as it was after the copy became `assigned` by later assignments
\* (the columns Days and Years, the rebinding of df_filtered)
copy_then_assign(df, assigned) == df

\* df.dropna(subset=['Date', 'Water_Level'])
dropna_Date_Water_Level(df) ==
    SelectSeq(df, LAMBDA r : notna(r.Date) /\ notna(r.Water_Level))

\* df.sort_values('Date'): ascending, equal dates keep their order
InsertByDate(r, s) ==
    LET k == Cardinality({i \in 1..Len(s) : s[i].Date <= r.Date})
    IN SubSeq(s, 1, k) \o <<r>> \o SubSeq(s, k + 1, Len(s))

RECURSIVE sort_values_Date(_)
sort_values_Date(df) ==
    IF df = <<>> THEN <<>>
    ELSE InsertByDate(df[Len(df)], sort_values_Date(SubSeq(df, 1, Len(df) - 1)))

\* df_well['Days'] = (df_well['Date'] - df_well['Date'].min()).dt.days
DaysColumn(df_well) ==
    LET first == MinSeq([i \in 1..Len(df_well) |-> df_well[i].Date])
    IN [i \in 1..Len(df_well) |-> df_well[i].Date - first]

\* scipy.stats.linregress(x, y).  With all x identical the library either
\* raises ValueError (current releases) or divides 0 by 0 and returns a NaN
\* slope with r = 0 (older releases); `scipy` picks the build's behaviour.
ScipyBuilds == {"raises", "nan"}

linregress(x, y, scipy) ==
    LET n   == Len(x)
        Sx  == SumSeq(x)
        Sy  == SumSeq(y)
        Sxx == SumSeq([i \in 1..n |-> x[i] * x[i]])
        Sxy == SumSeq([i \in 1..n |-> x[i] * y[i]])
        Syy == SumSeq([i \in 1..n |-> y[i] * y[i]])
        ssxm  == n * Sxx - Sx * Sx      \* n^2 * mean((x - mean x)^2)
        ssxym == n * Sxy - Sx * Sy
        ssym  == n * Syy - Sy * Sy
    IN IF ssxm = 0 /\ scipy = "raises"
       THEN [raised |-> TRUE, slope |-> NaN, r_squared |-> NaN]
       ELSE [raised |-> FALSE,
             slope |-> Frac(ssxym, ssxm),
             r_squared |-> IF ssxm = 0 \/ ssym = 0 THEN Frac(0, 1)
                           ELSE FracMul(Frac(ssxym, ssxm), Frac(ssxym, ssym))]

slope_per_year_365(slope) == Frac(slope.num * 365, slope.den)

\* slope_per_year = slope * 365.25
slope_per_year_of(slope) == Frac(slope.num * 1461, slope.den * 4)

trend_status_ge(slope_per_year) ==
    IF slope_per_year.den # 0 /\ slope_per_year.num >= 5 * slope_per_year.den
    THEN "Declining"
    ELSE IF slope_per_year.den # 0 /\ slope_per_year.num <= -5 * slope_per_year.den
    THEN "Recovering"
    ELSE "Stable"

\* the coarse status annotation of the figure
trend_status_of(slope_per_year) ==
    IF FracGt(slope_per_year, 5) THEN "Declining"
    ELSE IF FracLt(slope_per_year, -5) THEN "Recovering"
    ELSE "Stable"

\* what the call returns: ret = "None" is (None, None, None, None), "tuple" is
\* (fig, slope_per_year, r_squared, len(df_well)), "raised" is an exception
NoResult(ret, df_well) ==
    [ret |-> ret, slope |-> NaN, r_squared |-> NaN, n |-> 0,
     df_well |-> df_well, Days |-> <<>>, trend_status |-> "none"]

create_well_time_series_with_regression(df_well_data, well_id, scipy) ==
    LET own     == SelectSeq(df_well_data, LAMBDA r : r.Station_Code = well_id)
        df_well == sort_values_Date(dropna_Date_Water_Level(own))
    IN IF Len(df_well) < 2 THEN NoResult("None", df_well)
       ELSE LET Days == DaysColumn(df_well)
                fit  == linregress(Days,
                                   [i \in 1..Len(df_well) |-> df_well[i].Water_Level],
                                   scipy)
                slope_per_year == slope_per_year_of(fit.slope)
            IN IF fit.raised THEN [NoResult("raised", df_well) EXCEPT !.Days = Days]
               ELSE [ret |-> "tuple",
                     slope |-> slope_per_year,
                     r_squared |-> fit.r_squared,
                     n |-> Len(df_well),
                     df_well |-> df_well,
                     Days |-> Days,
                     trend_status |-> trend_status_of(slope_per_year)]

(***************************************************************************)
(* The well-analysis view of main (tab 3, second column)                   *)
(***************************************************************************)
\* the delta text with the sign convention inverted
trend_text_inverted(slope) == IF FracGt(slope, 0) THEN "Recovering" ELSE "Declining"

\* delta text of the trend metric
trend_text_of(slope) == IF FracGt(slope, 0) THEN "Declining" ELSE "Recovering"

interpretation_closed(slope) ==
    IF FracGt(slope, 50) THEN "critical_decline"
    ELSE IF FracGt(slope, 10) THEN "moderate_decline"
    ELSE IF FracGt(slope, 0) THEN "slight_decline"
    ELSE IF slope.den # 0 /\ slope.num >= -10 * slope.den THEN "stable_level"
    ELSE "recovery"

\* the fine, five-band interpretation message
interpretation_of(slope) ==
    IF FracGt(slope, 50) THEN "critical_decline"
    ELSE IF FracGt(slope, 10) THEN "moderate_decline"
    ELSE IF FracGt(slope, 0) THEN "slight_decline"
    ELSE IF FracGt(slope, -10) THEN "stable_level"
    ELSE "recovery"

NoTrend ==
    [well |-> "none", call |-> NoResult("not_called", <<>>),
     trend_text |-> "none", interpretation |-> "none",
     low_r2_note |-> FALSE, warning |-> "none"]

WellAnalysisView(well, scipy) ==
    LET call == create_well_time_series_with_regression(df_history, well, scipy)
    IN IF call.ret = "tuple"
       THEN [well |-> well, call |-> call,
             trend_text |-> trend_text_of(call.slope),
             interpretation |-> interpretation_of(call.slope),
             low_r2_note |-> FracLt(FracMul(call.r_squared, Frac(10, 1)), 3),
             warning |-> "none"]
       ELSE IF call.ret = "None"
       THEN [NoTrend EXCEPT !.well = well, !.call = call,
                            !.warning = "insufficient_data"]
       ELSE [NoTrend EXCEPT !.well = well, !.call = call]


(***************************************************************************)
(* generate_demo_data and its aggregation by Region, SHAC and Comuna       *)
(***************************************************************************)
\* number of demo wells (474 in the source, scaled down)
n_wells == 3

\* f'{i:08d}'
StationCodeOf(i) == <<"00000000", "00000001", "00000002", "00000003", "00000004">>[i]

\* the administrative names the model uses, in the order pandas sorts them
UnitOrder == <<"Colina", "Coquimbo", "Lampa", "Santiago", "Valparaiso">>

\* the (Region, SHAC, Comuna) a demo well can draw
UnitDraws ==
    {[Region |-> "Valparaiso", SHAC |-> "Lampa",  Comuna |-> "Lampa"],
     [Region |-> "Valparaiso", SHAC |-> "Colina", Comuna |-> "Santiago"],
     [Region |-> "Coquimbo",   SHAC |-> "Lampa",  Comuna |-> "Santiago"]}

\* the (Linear_Slope_m_yr, Consensus_Trend) a demo well can draw; slopes of the
\* wells table are whole tenths of a metre per year
TrendDraws ==
    {[Linear_Slope_m_yr |-> 6,  Consensus_Trend |-> "Decreasing"],
     [Linear_Slope_m_yr |-> 2,  Consensus_Trend |-> "Decreasing"],
     [Linear_Slope_m_yr |-> -3, Consensus_Trend |-> "Increasing"],
     [Linear_Slope_m_yr |-> 2,  Consensus_Trend |-> "Stable"]}

DemoDraws == [1..n_wells -> UnitDraws \X TrendDraws]

\* a missing value in a text column
NAText == "nan"

nunique_Consensus_Trend(g) ==
    Cardinality({g[i].Consensus_Trend : i \in 1..Len(g)})

\* Series.count(): the non-missing entries
count_Station_Code(g) == Len(SelectSeq(g, LAMBDA w : w.Station_Code # NAText))

sum_Linear_Slope(g) ==
    Frac(SumSeq([i \in 1..Len(g) |-> g[i].Linear_Slope_m_yr]), 1)

\* Series.mean(): the mean of the non-missing entries, NaN when there are none
mean_Linear_Slope(g) ==
    LET have == SelectSeq(g, LAMBDA w : notna(w.Linear_Slope_m_yr))
    IN Frac(SumSeq([i \in 1..Len(have) |-> have[i].Linear_Slope_m_yr]), Len(have))

\* lambda x: (x == 'Decreasing').sum() / len(x) * 100
pct_Decreasing(g) ==
    Frac(100 * Len(SelectSeq(g, LAMBDA w : w.Consensus_Trend = "Decreasing")), Len(g))

\* the keys of a groupby that emits every unit, with or without wells
GroupKeys_unobserved(df, key) == UnitOrder

\* the keys of a groupby: the non-missing values of the column, sorted
GroupKeys(df, key) ==
    SelectSeq(UnitOrder, LAMBDA u : \E i \in 1..Len(df) : df[i][key] = u)

\* the aggregation of a wells table by one key column, as the upstream analysis
\* writes its ranking sheets: count, mean slope and share of Decreasing labels
groupby_agg(df_wells, key) ==
    LET keys == GroupKeys(df_wells, key)
        row(u) == LET g == SelectSeq(df_wells, LAMBDA w : w[key] = u)
                  IN (key :> u) @@
                     [Total_Wells |-> count_Station_Code(g),
                      Avg_Linear_Slope_m_yr |-> mean_Linear_Slope(g),
                      Pct_Decreasing_Consensus |-> pct_Decreasing(g)]
    IN [k \in 1..Len(keys) |-> row(keys[k])]

\* the demo wells table: one row per well from the seeded draws
DemoWells(draws) ==
    [i \in 1..n_wells |->
        [Station_Code |-> StationCodeOf(i),
         Region |-> draws[i][1].Region,
         SHAC |-> draws[i][1].SHAC,
         Comuna |-> draws[i][1].Comuna,
         Latitude |-> -3345,
         Longitude |-> -7065,
         Linear_Slope_m_yr |-> draws[i][2].Linear_Slope_m_yr,
         Consensus_Trend |-> draws[i][2].Consensus_Trend]]

df_comunas_by_trend(df_wells) ==
    LET keys == GroupKeys(df_wells, "Comuna")
        row(u) == LET x == SelectSeq(df_wells, LAMBDA w : w.Comuna = u)
                  IN [Comuna |-> u,
                      Total_Wells |-> count_Station_Code(x),
                      Avg_Linear_Slope_m_yr |-> mean_Linear_Slope(x),
                      Pct_Decreasing_Consensus |->
                          Frac(100 * Len(SelectSeq(x, LAMBDA w :
                                   w.Consensus_Trend # "Increasing")), Len(x))]
    IN [k \in 1..Len(keys) |-> row(keys[k])]

\* df_regions = df_wells.groupby('Region').agg({...}).reset_index()
df_regions_of(df_wells) ==
    LET keys == GroupKeys(df_wells, "Region")
        row(u) == LET x == SelectSeq(df_wells, LAMBDA w : w.Region = u)
                  IN [Region |-> u,
                      Total_Wells |-> count_Station_Code(x),
                      Avg_Linear_Slope_m_yr |-> mean_Linear_Slope(x),
                      Pct_Decreasing_Consensus |->
                          Frac(100 * Len(SelectSeq(x, LAMBDA w :
                                   w.Consensus_Trend = "Decreasing")), Len(x))]
    IN [k \in 1..Len(keys) |-> row(keys[k])]

\* df_shacs = df_wells.groupby('SHAC').agg({...}).reset_index()
df_shacs_of(df_wells) ==
    LET keys == GroupKeys(df_wells, "SHAC")
        row(u) == LET x == SelectSeq(df_wells, LAMBDA w : w.SHAC = u)
                  IN [SHAC |-> u,
                      Total_Wells |-> count_Station_Code(x),
                      Avg_Linear_Slope_m_yr |-> mean_Linear_Slope(x),
                      Pct_Decreasing_Consensus |->
                          Frac(100 * Len(SelectSeq(x, LAMBDA w :
                                   w.Consensus_Trend = "Decreasing")), Len(x))]
    IN [k \in 1..Len(keys) |-> row(keys[k])]

\* df_comunas = df_wells.groupby('Comuna').agg({...}).reset_index()
df_comunas_of(df_wells) ==
    LET keys == GroupKeys(df_wells, "Comuna")
        row(u) == LET x == SelectSeq(df_wells, LAMBDA w : w.Comuna = u)
                  IN [Comuna |-> u,
                      Total_Wells |-> count_Station_Code(x),
                      Avg_Linear_Slope_m_yr |-> mean_Linear_Slope(x),
                      Pct_Decreasing_Consensus |->
                          Frac(100 * Len(SelectSeq(x, LAMBDA w :
                                   w.Consensus_Trend = "Decreasing")), Len(x))]
    IN [k \in 1..Len(keys) |-> row(keys[k])]

generate_demo_data(draws) ==
    LET df_wells == DemoWells(draws)
    IN [wells |-> df_wells,
        regions |-> df_regions_of(df_wells),
        shacs |-> df_shacs_of(df_wells),
        comunas |-> df_comunas_of(df_wells),
        loaded |-> TRUE,
        demo |-> TRUE]

NotLoaded ==
    [wells |-> <<>>, regions |-> <<>>, shacs |-> <<>>, comunas |-> <<>>,
     loaded |-> FALSE, demo |-> FALSE]

(***************************************************************************)
(* load_piezometric_data                                                   *)
(***************************************************************************)
\* no workbook at data/Groundwater_Trend_Analysis_Complete.xlsx
NoFile == [exists |-> FALSE, readable |-> FALSE, sheets |-> NotLoaded]

\* potential_paths is the argument and then the workbook in data/.  The argument
\* is None or the UploadedFile of the sidebar; os.path.exists of an UploadedFile
\* raises TypeError (outside the try).  A workbook that exists and whose sheets
\* load is returned; otherwise the demo data.
load_piezometric_data(file_path, workbook, draws) ==
    IF file_path # "None"
    THEN [ret |-> "raised", data |-> NotLoaded]
    ELSE IF workbook.exists /\ workbook.readable
    THEN [ret |-> "dict",
          data |-> [workbook.sheets EXCEPT !.loaded = TRUE, !.demo = FALSE]]
    ELSE [ret |-> "dict", data |-> generate_demo_data(draws)]

(***************************************************************************)
(* load_well_history_data                                                  *)
(***************************************************************************)
IsLeap(y) == (y % 4 = 0 /\ y % 100 # 0) \/ y % 400 = 0

DaysInMonth(m, y) ==
    IF m = 2 THEN (IF IsLeap(y) THEN 29 ELSE 28)
    ELSE IF m \in {4, 6, 9, 11} THEN 30 ELSE 31

\* dates are day numbers: day 1 is 1 January of this year
FirstYear == 2000

DayNumber(m, d, y) ==
    SumSeq([k \in 1..(y - FirstYear) |->
               IF IsLeap(FirstYear + k - 1) THEN 366 ELSE 365])
    + SumSeq([k \in 1..(m - 1) |-> DaysInMonth(k, y)]) + d

\* a cell of the Fecha_US column is the numbers between its dashes (the empty
\* cell is <<>>); it matches '%m-%d-%Y' when it is a month, a day of that
\* month and a year
MatchesFormat(cell) ==
    /\ Len(cell) = 3
    /\ cell[1] \in 1..12
    /\ cell[3] \in FirstYear..2261
    /\ cell[2] \in 1..DaysInMonth(cell[1], cell[3])

\* pd.to_datetime(..., errors='raise'): a cell that does not match is an error
to_datetime_raise(column) ==
    [raised |-> \E i \in 1..Len(column) :
                    column[i] # <<>> /\ ~MatchesFormat(column[i]),
     values |-> [i \in 1..Len(column) |->
                    IF MatchesFormat(column[i])
                    THEN DayNumber(column[i][1], column[i][2], column[i][3])
                    ELSE NA]]

\* pd.to_datetime(df['Fecha_US'], format='%m-%d-%Y', errors='coerce'): a cell
\* that does not match becomes NaT
to_datetime(column) ==
    [raised |-> FALSE,
     values |-> [i \in 1..Len(column) |->
                    IF MatchesFormat(column[i])
                    THEN DayNumber(column[i][1], column[i][2], column[i][3])
                    ELSE NA]]

NotLoadedHistory == [data |-> <<>>, loaded |-> FALSE]

\* no workbook at data/niveles_estaticos_pozos_historico.xlsx
NoHistoryFile == [exists |-> FALSE, readable |-> FALSE, rows |-> <<>>]

\* the first path that exists is read, the Date column is parsed from
\* Fecha_US and the columns are renamed; an exception in the try is a warning
\* and {'loaded': False}.  Station codes are text already, which astype(str)
\* leaves as it is.
load_well_history_data(file) ==
    IF file.exists /\ file.readable
    THEN LET Date == to_datetime([i \in 1..Len(file.rows) |-> file.rows[i].Fecha_US])
         IN IF Date.raised THEN NotLoadedHistory
            ELSE [data |-> [i \in 1..Len(file.rows) |->
                               [Station_Code |-> file.rows[i].Station_Code,
                                Fecha_US |-> file.rows[i].Fecha_US,
                                Date |-> Date.values[i],
                                Water_Level |-> file.rows[i].Water_Level,
                                Latitude |-> file.rows[i].Latitude,
                                Longitude |-> file.rows[i].Longitude]],
                  loaded |-> TRUE]
    ELSE NotLoadedHistory

(***************************************************************************)
(* load_census_data                                                        *)
(***************************************************************************)
NotLoadedCensus == [region |-> <<>>, comuna |-> <<>>, shac |-> <<>>, loaded |-> FALSE]

\* no workbook at data/Comparacion_Censo2017_vs_Censo2024.xlsx
NoCensusFile == [exists |-> FALSE, readable |-> FALSE, sheets |-> NotLoadedCensus]

\* potential_paths is the argument and then the workbook in data/; as in
\* load_piezometric_data, os.path.exists of an UploadedFile raises.  The three
\* sheets are returned as they were read; a sheet that does not load is a
\* warning and {'loaded': False}.
load_census_data(file_path, workbook) ==
    IF file_path # "None"
    THEN [ret |-> "raised", data |-> NotLoadedCensus]
    ELSE IF workbook.exists /\ workbook.readable
    THEN [ret |-> "dict",
          data |-> [region |-> workbook.sheets.region,
                    comuna |-> workbook.sheets.comuna,
                    shac |-> workbook.sheets.shac,
                    loaded |-> TRUE]]
    ELSE [ret |-> "dict", data |-> NotLoadedCensus]

(***************************************************************************)
(* @st.cache_data(ttl=3600) on the loaders                                 *)
(***************************************************************************)
Miss == [hit |-> FALSE, value |-> <<>>]

Hit(value) == [hit |-> TRUE, value |-> value]

\* the entries of the calls without a file argument; before the first call
\* and after the time to live every call is a miss
EmptyCache ==
    [piezo |-> Miss, census |-> Miss, history |-> Miss, rights |-> Miss,
     census_2017 |-> Miss, census_2024 |-> Miss]

\* the store in which an earlier run has left the history table
StoredHistory(df) ==
    IF df = <<>> THEN EmptyCache
    ELSE [EmptyCache EXCEPT !.history = Hit([data |-> df, loaded |-> TRUE])]

\* a call that is never served from the store
st_uncached(entry, value) == value

\* the decorated call: the stored value of a hit, the function's value otherwise
st_cache_data(entry, value) == IF entry.hit THEN entry.value ELSE value

(***************************************************************************)
(* The sidebar filters of main                                             *)
(***************************************************************************)
\* t('all')
All == "All"

TrendOptions == {"Decreasing", "Increasing", "Stable"}

\* [t('all')] + sorted(df_wells['Region'].dropna().unique().tolist())
RegionChoices(df_wells) == <<All>> \o GroupKeys(df_wells, "Region")

\* [t('all')] + sorted(available_shacs.tolist())
ShacChoices(df_wells, region) ==
    <<All>> \o GroupKeys(IF region # All
                         THEN SelectSeq(df_wells, LAMBDA w : w.Region = region)
                         ELSE df_wells,
                         "SHAC")

Range(s) == {s[i] : i \in 1..Len(s)}

\* a select box whose choices changed is a new widget and shows its first choice
Kept(choice, choices_before, choices_now) ==
    IF choices_before = choices_now THEN choice ELSE All

\* filters for which an empty trend selection selects no well
apply_filters_strict(df_wells, region, shac, trend_filter_en) ==
    LET by_region == IF region # All
                     THEN SelectSeq(df_wells, LAMBDA w : w.Region = region)
                     ELSE df_wells
        by_shac   == IF shac # All
                     THEN SelectSeq(by_region, LAMBDA w : w.SHAC = shac)
                     ELSE by_region
    IN SelectSeq(by_shac, LAMBDA w : w.Consensus_Trend \in trend_filter_en)

\* filters that leave out the SHAC select box
apply_filters_without_shac(df_wells, region, shac, trend_filter_en) ==
    LET by_region == IF region # All
                     THEN SelectSeq(df_wells, LAMBDA w : w.Region = region)
                     ELSE df_wells
    IN IF trend_filter_en # {}
       THEN SelectSeq(by_region, LAMBDA w : w.Consensus_Trend \in trend_filter_en)
       ELSE by_region

\* df_filtered: region, then SHAC, then the trend labels (skipped when none is chosen)
apply_filters(df_wells, region, shac, trend_filter_en) ==
    LET by_region == IF region # All
                     THEN SelectSeq(df_wells, LAMBDA w : w.Region = region)
                     ELSE df_wells
        by_shac   == IF shac # All
                     THEN SelectSeq(by_region, LAMBDA w : w.SHAC = shac)
                     ELSE by_region
    IN IF trend_filter_en # {}
       THEN SelectSeq(by_shac, LAMBDA w : w.Consensus_Trend \in trend_filter_en)
       ELSE by_shac

(***************************************************************************)
(* The overview tab of main: the national summary                          *)
(***************************************************************************)
\* value="63,822" and the first slice of the extraction pie
registered_dga == 63822

\* the second slice of the extraction pie (shown as "~154,000")
unregistered_census == 153580

\* delta="-413 wells" and the first slice of the trends pie
declining == 413

\* the second slice of the trends pie
stable_rising == 61

\* the annotation '474 wells' of the trends pie
wells_annotation == 474

NoSummary ==
    [drawn |-> FALSE, registered_wells |-> 0, unregistered_wells |-> 0,
     wells_declining |-> 0, wells_not_declining |-> 0, total_wells |-> 0]

\* the four metrics and the two pies: literals, whatever was loaded
national_summary(data) ==
    [drawn |-> TRUE,
     registered_wells |-> registered_dga,
     unregistered_wells |-> unregistered_census,
     wells_declining |-> declining,
     wells_not_declining |-> stable_rising,
     total_wells |-> wells_annotation]

(***************************************************************************)
(* The spatial-aggregation tab of main: the bar chart and the summary table *)
(***************************************************************************)
AggLevels == {"Region", "SHAC", "Comuna"}

\* a sorts before b under ascending=False: the larger slope first, NaN last
SlopeBefore(a, b) ==
    IF a.den = 0 THEN FALSE
    ELSE IF b.den = 0 THEN TRUE
    ELSE a.num * b.den > b.num * a.den

\* df.sort_values(decline_col, ascending=False) with the default kind
\* (quicksort, which is not stable): the orders of the rows in which no row
\* comes after a row it sorts before; rows of equal slope come in any order
sort_values_descending(df) ==
    LET n == Len(df)
        orders == {p \in [1..n -> 1..n] :
                      /\ \A i, j \in 1..n : i # j => p[i] # p[j]
                      /\ \A i, j \in 1..n :
                            i < j => ~SlopeBefore(df[p[j]].Avg_Linear_Slope_m_yr,
                                                  df[p[i]].Avg_Linear_Slope_m_yr)}
    IN {[i \in 1..n |-> df[p[i]]] : p \in orders}

head(df, n) == SubSeq(df, 1, IF Len(df) < n THEN Len(df) ELSE n)

\* a sorts before b under ascending=True: the smaller slope first, NaN last
SlopeBeforeAscending(a, b) ==
    IF a.den = 0 THEN FALSE
    ELSE IF b.den = 0 THEN TRUE
    ELSE a.num * b.den < b.num * a.den

create_regional_comparison_plot_descending(df_regions) ==
    sort_values_descending(df_regions)

\* create_regional_comparison_plot: the bars are the rows of
\* df_regions.sort_values('Avg_Linear_Slope_m_yr', ascending=True), again with
\* the default kind
create_regional_comparison_plot(df_regions) ==
    LET n == Len(df_regions)
        orders == {p \in [1..n -> 1..n] :
                      /\ \A i, j \in 1..n : i # j => p[i] # p[j]
                      /\ \A i, j \in 1..n :
                            i < j => ~SlopeBeforeAscending(
                                         df_regions[p[j]].Avg_Linear_Slope_m_yr,
                                         df_regions[p[i]].Avg_Linear_Slope_m_yr)}
    IN {[i \in 1..n |-> df_regions[p[i]]] : p \in orders}

\* the rows with a slope in descending order, rows of equal slope in the order
\* of the table (argsort(kind="mergesort") of the negated values)
mergesort_descending(df) ==
    LET have == SelectSeq(df, LAMBDA r : r.Avg_Linear_Slope_m_yr.den # 0)
        n == Len(have)
        p == CHOOSE q \in [1..n -> 1..n] :
                /\ \A i, j \in 1..n : i # j => q[i] # q[j]
                /\ \A i, j \in 1..n :
                      i < j =>
                        \/ SlopeBefore(have[q[i]].Avg_Linear_Slope_m_yr,
                                       have[q[j]].Avg_Linear_Slope_m_yr)
                        \/ /\ ~SlopeBefore(have[q[j]].Avg_Linear_Slope_m_yr,
                                           have[q[i]].Avg_Linear_Slope_m_yr)
                           /\ q[i] < q[j]
    IN [i \in 1..n |-> have[p[i]]]

\* df.nlargest(n, 'Avg_Linear_Slope_m_yr') with keep='first': a table of at most
\* n rows is df.sort_values(ascending=False).head(n); of a longer table, the
\* first n of the rows with a slope in mergesort order and then the rows without
nlargest(df, n) ==
    IF n >= Len(df)
    THEN {head(sorted, n) : sorted \in sort_values_descending(df)}
    ELSE {head(mergesort_descending(df)
               \o SelectSeq(df, LAMBDA r : r.Avg_Linear_Slope_m_yr.den = 0), n)}

\* bars of the SHAC chart
TopShacs == 20

\* bars of the comuna chart
TopComunas == 15

\* create_shac_heatmap: the bars are the rows of df_shacs.nlargest(20, ...)
create_shac_heatmap(df_shacs) == nlargest(df_shacs, TopShacs)

\* the bar charts the tab can show
bar_chart(data, level) ==
    IF ~data.loaded THEN {<<>>}
    ELSE IF level = "Region" THEN create_regional_comparison_plot(data.regions)
    ELSE IF level = "SHAC" THEN create_shac_heatmap(data.shacs)
    ELSE nlargest(data.comunas, TopComunas)

\* rows of the summary table
TableRows == 30

\* the tables the tab can show
summary_table(data, level) ==
    IF ~data.loaded THEN {<<>>}
    ELSE IF level = "Region" THEN sort_values_descending(data.regions)
    ELSE IF level = "SHAC"
    THEN {head(df, TableRows) : df \in sort_values_descending(data.shacs)}
    ELSE {head(df, TableRows) : df \in sort_values_descending(data.comunas)}

(***************************************************************************)
(* Coordinate validation: load_dga_water_rights and load_census_points     *)
(***************************************************************************)
NotLoadedPoints == [data |-> <<>>, loaded |-> FALSE]

load_census_points_exclusive(file) ==
    IF file.exists
    THEN LET present == SelectSeq(file.rows,
                           LAMBDA r : notna(r.Latitude) /\ notna(r.Longitude))
             lat_ok  == SelectSeq(present,
                           LAMBDA r : r.Latitude > -5600 /\ r.Latitude < -1700)
             lon_ok  == SelectSeq(lat_ok,
                           LAMBDA r : r.Longitude > -7600 /\ r.Longitude < -6600)
         IN [data |-> lon_ok, loaded |-> TRUE]
    ELSE NotLoadedPoints

\* coordinates are in hundredths of a degree:
\* df.dropna(subset=['Latitude', 'Longitude']), then the latitude mask, then the
\* longitude mask
load_dga_water_rights(file) ==
    IF file.exists
    THEN LET present == SelectSeq(file.rows,
                           LAMBDA r : notna(r.Latitude) /\ notna(r.Longitude))
             lat_ok  == SelectSeq(present,
                           LAMBDA r : r.Latitude >= -5600 /\ r.Latitude <= -1700)
             lon_ok  == SelectSeq(lat_ok,
                           LAMBDA r : r.Longitude >= -7600 /\ r.Longitude <= -6600)
         IN [data |-> lon_ok, loaded |-> TRUE]
    ELSE NotLoadedPoints

load_census_points(file) ==
    IF file.exists
    THEN LET present == SelectSeq(file.rows,
                           LAMBDA r : notna(r.Latitude) /\ notna(r.Longitude))
             lat_ok  == SelectSeq(present,
                           LAMBDA r : r.Latitude >= -5600 /\ r.Latitude <= -1700)
             lon_ok  == SelectSeq(lat_ok,
                           LAMBDA r : r.Longitude >= -7600 /\ r.Longitude <= -6600)
         IN [data |-> lon_ok, loaded |-> TRUE]
    ELSE NotLoadedPoints

(***************************************************************************)
(* create_well_map: the markers of the five layers                         *)
(***************************************************************************)
\* rows beyond which a layer is sampled
SampleSize == 5000

\* df.sample(n=5000, random_state=42): a fixed choice of n rows
sample(df, n) ==
    LET picks == CHOOSE S \in SUBSET (1..Len(df)) : Cardinality(S) = n
    IN SelectSeq(df, LAMBDA r : \E i \in picks : df[i] = r)

sampled(df) == IF Len(df) > SampleSize THEN sample(df, SampleSize) ELSE df

\* one marker per row that has both coordinates
markers_of(df) ==
    LET have == SelectSeq(df, LAMBDA r : notna(r.Latitude) /\ notna(r.Longitude))
    IN [i \in 1..Len(have) |->
           [Latitude |-> have[i].Latitude, Longitude |-> have[i].Longitude]]

\* df.drop_duplicates(subset=['Station_Code']): the first row of every station
drop_duplicates_Station_Code(df) ==
    LET firsts == {i \in 1..Len(df) :
                      \A j \in 1..(i - 1) : df[j].Station_Code # df[i].Station_Code}
    IN [k \in 1..Cardinality(firsts) |->
           df[CHOOSE i \in firsts : Cardinality({j \in firsts : j <= i}) = k]]

NoMap ==
    [drawn |-> FALSE, wells |-> <<>>, dga_stations |-> <<>>, water_rights |-> <<>>,
     census_2017 |-> <<>>, census_2024 |-> <<>>]

create_well_map(df_wells, flags, stations, rights, census17, census24) ==
    [drawn |-> TRUE,
     wells |-> markers_of(df_wells),
     dga_stations |-> IF flags.dga_stations
                      THEN markers_of(drop_duplicates_Station_Code(stations))
                      ELSE <<>>,
     water_rights |-> IF flags.water_rights /\ rights.loaded
                      THEN markers_of(sampled(rights.data)) ELSE <<>>,
     census_2017 |-> IF flags.census_2017 /\ census17.loaded
                     THEN markers_of(sampled(census17.data)) ELSE <<>>,
     census_2024 |-> IF flags.census_2024 /\ census24.loaded
                     THEN markers_of(sampled(census24.data)) ELSE <<>>]

\* the map tab: the map is built only when some well passes the filters
map_tab(data, filtered, flags, stations, rights, census17, census24) ==
    IF data.loaded /\ Len(filtered) > 0
    THEN create_well_map(filtered, flags, stations, rights, census17, census24)
    ELSE NoMap

DefaultShow ==
    [dga_stations |-> TRUE, water_rights |-> FALSE,
     census_2017 |-> FALSE, census_2024 |-> FALSE]

(***************************************************************************)
(* One run of main                                                         *)
(***************************************************************************)
\* what a run leaves when it ends before it drew any widget; a widget that is
\* not drawn is back at its default when it is drawn again
Blank ==
    /\ piezo_data' = NotLoaded
    /\ census_data' = NotLoadedCensus
    /\ selected_region' = All
    /\ selected_shac' = All
    /\ trend_filter' = TrendOptions
    /\ df_filtered' = <<>>
    /\ overview' = NoSummary
    /\ agg_level' = "Region"
    /\ df_display' = <<>>
    /\ fig_bar' = <<>>
    /\ dga_water_rights' = NotLoadedPoints
    /\ census_2017_points' = NotLoadedPoints
    /\ census_2024_points' = NotLoadedPoints
    /\ show' = DefaultShow
    /\ well_map' = NoMap

(***************************************************************************)
(* Translations                                                             *)
(***************************************************************************)
\* three entries of each table of TRANSLATIONS
TRANSLATIONS ==
    [es |-> [all |-> "Todos", demo_data |-> "Usar Datos Demo",
             insufficient_data |-> "Datos insuficientes"],
     en |-> [all |-> "All", demo_data |-> "Use Demo Data",
             insufficient_data |-> "Insufficient data"]]

\* dict.get(key, default)
dict_get(d, key, default) == IF key \in DOMAIN d THEN d[key] ELSE default

\* TRANSLATIONS[lang][key]: a KeyError for a language or a key that is not there
get_text_subscript(key, lang) ==
    IF lang \in DOMAIN TRANSLATIONS /\ key \in DOMAIN TRANSLATIONS[lang]
    THEN TRANSLATIONS[lang][key]
    ELSE "KeyError"

get_text(key, lang) ==
    dict_get(dict_get(TRANSLATIONS, lang, TRANSLATIONS["es"]), key, key)

\* no call of get_text yet
NoText == [key |-> "none", lang |-> "none", text |-> "none"]

(***************************************************************************)
(* The options of the well select box.  A string is the sequence of its     *)
(* characters.                                                              *)
(***************************************************************************)
\* the code point of a character
ord(c) == CASE c = " " -> 32 [] c = "(" -> 40 [] c = ")" -> 41 [] OTHER -> 97

\* a < b for two strings
RECURSIVE StrLess(_, _)
StrLess(a, b) ==
    IF b = <<>> THEN FALSE
    ELSE IF a = <<>> THEN TRUE
    ELSE IF Head(a) # Head(b) THEN ord(Head(a)) < ord(Head(b))
    ELSE StrLess(Tail(a), Tail(b))

\* str.rpartition(sep) for a separator of one character
rpartition(s, sep) ==
    LET at == {i \in 1..Len(s) : s[i] = sep}
    IN IF at = {} THEN <<<<>>, <<>>, s>>
       ELSE LET i == CHOOSE k \in at : \A j \in at : j <= k
            IN <<SubSeq(s, 1, i - 1), <<sep>>, SubSeq(s, i + 1, Len(s))>>

\* str.replace(old, '') for one character
replace(s, old) == SelectSeq(s, LAMBDA c : c # old)

\* str.strip()
strip(s) ==
    LET inked == {i \in 1..Len(s) : s[i] # " "}
    IN IF inked = {} THEN <<>>
       ELSE SubSeq(s, CHOOSE i \in inked : \A j \in inked : i <= j,
                      CHOOSE i \in inked : \A j \in inked : j <= i)

\* f"{x['Station_Name']} ({x['Station_Code']})"
well_option(x) == x.Station_Name \o <<" ", "(">> \o x.Station_Code \o <<")">>

\* unique_wells.sort_values('Station_Name') with the default kind: wells of
\* equal name come in any order
sort_values_Station_Name(df) ==
    LET n == Len(df)
        orders == {p \in [1..n -> 1..n] :
                      /\ \A i, j \in 1..n : i # j => p[i] # p[j]
                      /\ \A i, j \in 1..n :
                            i < j => ~StrLess(df[p[j]].Station_Name,
                                              df[p[i]].Station_Name)}
    IN {[i \in 1..n |-> df[p[i]]] : p \in orders}

\* nothing chosen in the select box yet
NoSelection ==
    [wells_in_region |-> <<>>, index |-> 0, selected_well_display |-> "None",
     selected_well_name |-> <<>>, selected_well_code |-> <<>>,
     well_subset |-> <<>>, warning |-> "none"]

\* a run with the widgets at the given values: the loads, the sidebar filters,
\* the map tab and the aggregation tab.  The layer check boxes are drawn only
\* with the map.  A call with an uploaded file has a key of its own and raises
\* before anything is stored; a run that ends at the census load has stored
\* the wells.
main(lang, file, census, region, shac, trends, level, flags) ==
    LET load     == st_cache_data(IF file = "None" THEN cache.piezo ELSE Miss,
                                  load_piezometric_data(file, disk.piezo, np_random))
        data     == load.data
        loadc    == st_cache_data(IF census = "None" THEN cache.census ELSE Miss,
                                  load_census_data(census, disk.census))
        history  == st_cache_data(cache.history, load_well_history_data(disk.history))
        rights   == st_cache_data(cache.rights, load_dga_water_rights(disk.rights))
        census17 == st_cache_data(cache.census_2017,
                                  load_census_points(disk.census_2017))
        census24 == st_cache_data(cache.census_2024,
                                  load_census_points(disk.census_2024))
        filtered == apply_filters(data.wells, region, shac, trends)
        drawn    == data.loaded /\ Len(filtered) > 0
    IN /\ language' = lang
       /\ piezo_file' = file
       /\ census_file' = census
       /\ IF load.ret = "raised"
          THEN Blank /\ UNCHANGED <<cache, df_history>>
          ELSE IF loadc.ret = "raised"
          THEN /\ Blank
               /\ cache' = [cache EXCEPT !.piezo = Hit(load)]
               /\ UNCHANGED df_history
          ELSE /\ cache' = [piezo |-> Hit(load), census |-> Hit(loadc),
                            history |-> Hit(history), rights |-> Hit(rights), census_2017 |-> Hit(census17),
                            census_2024 |-> Hit(census24)]
               /\ piezo_data' = [data EXCEPT !.wells = copy_then_assign(@, filtered)]
               /\ census_data' = loadc.data
               /\ df_history' = history.data
               /\ selected_region' = region
               /\ selected_shac' = shac
               /\ trend_filter' = trends
               /\ df_filtered' = filtered
               /\ overview' = national_summary(data)
               /\ agg_level' = level
               /\ df_display' \in summary_table(data, level)
               /\ fig_bar' \in bar_chart(data, level)
               /\ dga_water_rights' = rights
               /\ census_2017_points' = census17
               /\ census_2024_points' = census24
               /\ show' = IF drawn THEN flags ELSE DefaultShow
               /\ well_map' = map_tab(data, filtered, flags, history.data,
                                      rights, census17, census24)
       /\ UNCHANGED <<np_random, disk, trend, well_selection, get_text_result>>

\* a run after a change of a widget other than the census uploader
Rerun(file, region, shac, trends, level, flags) ==
    main(language, file, census_file, region, shac, trends, level, flags)

\* the first run of a session, or the first run after the uploaded file was
\* removed: every widget is new
LoadData ==
    /\ ~piezo_data.loaded
    /\ main(language, "None", "None", All, All, TrendOptions, "Region", DefaultShow)

\* the user puts a workbook into the sidebar's uploader
UploadFile ==
    /\ piezo_data.loaded
    /\ Rerun("UploadedFile", selected_region, selected_shac, trend_filter,
             agg_level, show)

\* the user puts a workbook into the sidebar's census uploader
UploadCensusFile ==
    /\ piezo_data.loaded
    /\ main(language, piezo_file, "UploadedFile", selected_region, selected_shac,
            trend_filter, agg_level, show)

SelectRegion(region) ==
    /\ piezo_data.loaded
    /\ region \in Range(RegionChoices(piezo_data.wells))
    /\ region # selected_region
    /\ Rerun(piezo_file, region,
             Kept(selected_shac, ShacChoices(piezo_data.wells, selected_region),
                  ShacChoices(piezo_data.wells, region)),
             trend_filter, agg_level, show)

SelectShac(shac) ==
    /\ piezo_data.loaded
    /\ shac \in Range(ShacChoices(piezo_data.wells, selected_region))
    /\ shac # selected_shac
    /\ Rerun(piezo_file, selected_region, shac, trend_filter, agg_level, show)

\* the user adds or removes one label of the trend multiselect
ToggleTrend(label) ==
    /\ piezo_data.loaded
    /\ Rerun(piezo_file, selected_region, selected_shac,
             IF label \in trend_filter THEN trend_filter \ {label}
             ELSE trend_filter \cup {label},
             agg_level, show)

SelectAggLevel(level) ==
    /\ piezo_data.loaded
    /\ level # agg_level
    /\ Rerun(piezo_file, selected_region, selected_shac, trend_filter, level, show)

\* a layer check box of the map tab
ToggleLayer(layer) ==
    /\ well_map.drawn
    /\ Rerun(piezo_file, selected_region, selected_shac, trend_filter, agg_level,
             [show EXCEPT ![layer] = ~show[layer]])

\* one of the two language buttons of the sidebar: the button stores its
\* language and calls st.rerun().  The labels and options of the widgets are
\* translated, so under another language every widget is a new one and has
\* its default value.
PressLanguage(lang) ==
    /\ piezo_data.loaded \/ piezo_file # "None" \/ census_file # "None"
    /\ lang \in {"es", "en"}
    /\ IF lang # language
       THEN main(lang, "None", "None", All, All, TrendOptions, "Region", DefaultShow)
       ELSE main(lang, piezo_file, census_file, selected_region, selected_shac,
                 trend_filter, agg_level, show)

\* a call of get_text
GetText(key, lang) ==
    /\ get_text_result' = [key |-> key, lang |-> lang, text |-> get_text(key, lang)]
    /\ UNCHANGED <<df_history, trend, np_random, cache, sidebarVars, tab1Vars,
                   censusVars, tab4Vars, layerVars, mapVars, well_selection,
                   language>>

\* the trend-analysis workbook in data/ is replaced by another one
EditWorkbook(workbook) ==
    /\ workbook # disk.piezo
    /\ disk' = [disk EXCEPT !.piezo = workbook]
    /\ UNCHANGED <<df_history, trend, np_random, cache, sidebarVars, tab1Vars,
                   censusVars, tab4Vars, dga_water_rights, census_2017_points,
                   census_2024_points, mapVars, sessionVars>>

\* the time to live of the stored entries passes
Expire ==
    /\ cache # EmptyCache
    /\ cache' = EmptyCache
    /\ UNCHANGED <<df_history, trend, np_random, sidebarVars, tab1Vars, censusVars,
                   tab4Vars, layerVars, mapVars, sessionVars>>

(***************************************************************************)
(* Input domains                                                            *)
(***************************************************************************)
NoDisk == [exists |-> FALSE, rows |-> <<>>]

\* data/ with the given trend-analysis workbook and no layer workbook
DiskWith(workbook) ==
    [piezo |-> workbook, census |-> NoCensusFile, history |-> NoHistoryFile,
     rights |-> NoDisk,
     census_2017 |-> NoDisk, census_2024 |-> NoDisk]

\* the state before the first run of the script
Fresh ==
    /\ trend = NoTrend
    /\ piezo_file = "None"
    /\ census_file = "None"
    /\ piezo_data = NotLoaded
    /\ census_data = NotLoadedCensus
    /\ selected_region = All
    /\ selected_shac = All
    /\ trend_filter = TrendOptions
    /\ df_filtered = <<>>
    /\ overview = NoSummary
    /\ agg_level = "Region"
    /\ df_display = <<>>
    /\ fig_bar = <<>>
    /\ dga_water_rights = NotLoadedPoints
    /\ census_2017_points = NotLoadedPoints
    /\ census_2024_points = NotLoadedPoints
    /\ show = DefaultShow
    /\ well_map = NoMap
    /\ well_selection = NoSelection
    /\ language = "es"
    /\ get_text_result = NoText

Santiago == [Latitude |-> -3345, Longitude |-> -7065]

\* points in hundredths of a degree: Santiago, the two corners of the envelope,
\* (10, 10), a point just below the lower bounds, and points with a missing
\* coordinate
CoordPoints ==
    {Santiago,
     [Latitude |-> -5600, Longitude |-> -7600],
     [Latitude |-> -1700, Longitude |-> -6600],
     [Latitude |-> 1000,  Longitude |-> 1000],
     [Latitude |-> -5601, Longitude |-> -7601],
     [Latitude |-> -3345, Longitude |-> NA],
     [Latitude |-> NA,    Longitude |-> -7065]}

WellRow(code, unit, tr, at) ==
    [Station_Code |-> code,
     Region |-> unit.Region, SHAC |-> unit.SHAC, Comuna |-> unit.Comuna,
     Latitude |-> at.Latitude, Longitude |-> at.Longitude,
     Linear_Slope_m_yr |-> tr.Linear_Slope_m_yr,
     Consensus_Trend |-> tr.Consensus_Trend]

\* rows of an All_Wells_Details sheet: a declining well, a stable one, a well
\* without slope and label, and a well without region
WorkbookRows ==
    {WellRow("U1", [Region |-> "Valparaiso", SHAC |-> "Lampa", Comuna |-> "Lampa"],
             [Linear_Slope_m_yr |-> 6, Consensus_Trend |-> "Decreasing"], Santiago),
     WellRow("U2", [Region |-> "Coquimbo", SHAC |-> "Lampa", Comuna |-> "Santiago"],
             [Linear_Slope_m_yr |-> 0, Consensus_Trend |-> "Stable"], Santiago),
     WellRow("U3", [Region |-> "Valparaiso", SHAC |-> "Colina", Comuna |-> "Lampa"],
             [Linear_Slope_m_yr |-> NA, Consensus_Trend |-> NAText], Santiago),
     WellRow("U4", [Region |-> NAText, SHAC |-> "Colina", Comuna |-> "Lampa"],
             [Linear_Slope_m_yr |-> -3, Consensus_Trend |-> "Increasing"], Santiago)}

MaxWorkbookWells == 2

\* a workbook of the upstream analysis: the wells sheet and the ranking sheets,
\* written from the wells (or, stale, from the wells but the last one)
Workbook(wells, stale, readable) ==
    LET ranked == IF stale THEN SubSeq(wells, 1, Len(wells) - 1) ELSE wells
    IN [exists |-> TRUE, readable |-> readable,
        sheets |-> [wells |-> wells,
                    regions |-> groupby_agg(ranked, "Region"),
                    shacs |-> groupby_agg(ranked, "SHAC"),
                    comunas |-> groupby_agg(ranked, "Comuna"),
                    loaded |-> TRUE, demo |-> FALSE]]

Workbooks ==
    {Workbook(wells, stale, TRUE) :
        wells \in SeqsUpTo(WorkbookRows, MaxWorkbookWells), stale \in BOOLEAN}
    \cup {Workbook(<<>>, FALSE, FALSE)}

(***************************************************************************)
(* Specifications                                                          *)
(***************************************************************************)
\* the demo data: no workbook in data/, any draws of the seeded generator
InitAgg ==
    /\ Fresh
    /\ df_history = <<>>
    /\ cache = StoredHistory(df_history)
    /\ np_random \in DemoDraws
    /\ disk = DiskWith(NoFile)

NextAgg ==
    \/ LoadData
    \/ UploadFile

SpecAgg == InitAgg /\ [][NextAgg]_vars

\* one outcome of the draws, where the wells need not vary
SomeDraws == CHOOSE draws \in DemoDraws : TRUE

\* the sidebar and the aggregation tab: no workbook in data/ and draws of the
\* generator that differ in the last well, or any workbook in data/
AppDraws ==
    {draws \in DemoDraws : \A i \in 1..(n_wells - 1) : draws[i] = SomeDraws[i]}

InitApp ==
    /\ Fresh
    /\ df_history = <<>>
    /\ cache = StoredHistory(df_history)
    /\ \/ /\ np_random \in AppDraws
          /\ disk = DiskWith(NoFile)
       \/ /\ np_random = SomeDraws
          /\ disk \in {DiskWith(w) : w \in Workbooks}

NextApp ==
    \/ LoadData
    \/ UploadFile
    \/ \E region \in Range(UnitOrder) \cup {All} : SelectRegion(region)
    \/ \E shac \in Range(UnitOrder) \cup {All} : SelectShac(shac)
    \/ \E label \in TrendOptions : ToggleTrend(label)
    \/ \E level \in AggLevels : SelectAggLevel(level)

SpecApp == InitApp /\ [][NextApp]_vars

\* the map tab: any points in the history table, the wells sheet and the layer
\* workbooks
MaxPoints == 2

StationRows ==
    {[Station_Code |-> code, Date |-> 100, Water_Level |-> 20,
      Latitude |-> at.Latitude, Longitude |-> at.Longitude] :
        code \in StationCodes, at \in CoordPoints}

\* a workbook in data/ with the given rows
PointsFile(rows) == [exists |-> TRUE, rows |-> rows]

\* a trend-analysis workbook whose wells lie at the given points
MapWorkbook(points) ==
    Workbook([i \in 1..Len(points) |->
                 WellRow(StationCodeOf(i), CHOOSE u \in UnitDraws : TRUE,
                         CHOOSE d \in TrendDraws : TRUE, points[i])],
             FALSE, TRUE)

\* data/ with a trend-analysis workbook of one well in Santiago
OneWell == DiskWith(MapWorkbook(<<Santiago>>))

\* the points are the rows of one table: the history table, the wells sheet or
\* one of the three layer workbooks
InitMap ==
    /\ Fresh
    /\ np_random = SomeDraws
    /\ \/ /\ disk = OneWell
          /\ df_history \in SeqsUpTo(StationRows, MaxPoints)
       \/ /\ df_history = <<>>
          /\ \E points \in SeqsUpTo(CoordPoints, MaxPoints) :
                disk \in {DiskWith(MapWorkbook(points)),
                          [OneWell EXCEPT !.rights = PointsFile(points)],
                          [OneWell EXCEPT !.census_2017 = PointsFile(points)],
                          [OneWell EXCEPT !.census_2024 = PointsFile(points)]}
    /\ cache = StoredHistory(df_history)

NextMap ==
    \/ LoadData
    \/ UploadFile
    \/ \E layer \in DOMAIN DefaultShow : ToggleLayer(layer)

SpecMap == InitMap /\ [][NextMap]_vars

\* the census comparison: any region sheet of the comparison workbook and any
\* registry rows; the wells are one well in Santiago
CensusUnits == {"Coquimbo", "Valparaiso"}

\* rows of the Por_Region sheet: the unit and its wells in the two censuses,
\* either of which may be missing
CensusRows ==
    [Region : CensusUnits, Census_2017 : {0, 2, NA}, Census_2024 : {3, NA}]

\* sheets with at most one row per unit
CensusSheets ==
    {sheet \in SeqsUpTo(CensusRows, Cardinality(CensusUnits)) :
        \A i, j \in 1..Len(sheet) : sheet[i].Region = sheet[j].Region => i = j}

CensusWorkbook(region, readable) ==
    [exists |-> TRUE, readable |-> readable,
     sheets |-> [region |-> region, comuna |-> <<>>, shac |-> <<>>, loaded |-> TRUE]]

\* rows of the water-rights workbook, all of them in Santiago's coordinates
RegistryRows ==
    {[Latitude |-> Santiago.Latitude, Longitude |-> Santiago.Longitude,
      Region |-> u] : u \in CensusUnits}

InitCensus ==
    /\ Fresh
    /\ df_history = <<>>
    /\ cache = StoredHistory(df_history)
    /\ np_random = SomeDraws
    /\ \E registry \in SeqsUpTo(RegistryRows, MaxPoints) :
          \/ \E region \in CensusSheets :
                disk = [OneWell EXCEPT !.rights = PointsFile(registry),
                                       !.census = CensusWorkbook(region, TRUE)]
          \/ disk = [OneWell EXCEPT !.rights = PointsFile(registry),
                                    !.census = CensusWorkbook(<<>>, FALSE)]

NextCensus ==
    \/ LoadData
    \/ UploadFile
    \/ UploadCensusFile

SpecCensus == InitCensus /\ [][NextCensus]_vars

\* the well-analysis view
SelectWell(well, scipy) ==
    /\ trend' = WellAnalysisView(well, scipy)
    /\ df_history' = copy_then_assign(df_history, trend'.call.df_well)
    /\ UNCHANGED <<np_random, cache, sidebarVars, tab1Vars, censusVars,
                   tab4Vars, layerVars, mapVars, sessionVars>>

InitTrend ==
    /\ Fresh
    /\ np_random = SomeDraws
    /\ disk = DiskWith(NoFile)
    /\ df_history \in SeqsUpTo(HistoryRecords, MaxRecords)
    /\ cache = StoredHistory(df_history)

NextTrend == \E well \in StationCodes, scipy \in ScipyBuilds : SelectWell(well, scipy)

SpecTrend == InitTrend /\ [][NextTrend]_vars

\* the history workbook: cells of Fecha_US that are dates (9 April 2000 and
\* 9 April 2004), a day-first date, a day that the month does not have, and
\* an empty cell
RawHistoryRows ==
    LET Row(code, cell, level) ==
            [Station_Code |-> code, Fecha_US |-> cell, Water_Level |-> level,
             Latitude |-> Santiago.Latitude, Longitude |-> Santiago.Longitude]
    IN {Row("W1", <<4, 9, 2000>>, 20), Row("W1", <<4, 9, 2004>>, 240),
        Row("W1", <<13, 4, 2000>>, 20), Row("W1", <<2, 30, 2001>>, 20),
        Row("W1", <<>>, 20),
        Row("W2", <<4, 9, 2000>>, 20), Row("W2", <<13, 4, 2000>>, 20)}

HistoryFile(rows) == [exists |-> TRUE, readable |-> TRUE, rows |-> rows]

InitHistory ==
    /\ Fresh
    /\ df_history = <<>>
    /\ cache = EmptyCache
    /\ np_random = SomeDraws
    /\ \E rows \in SeqsUpTo(RawHistoryRows, MaxRecords) :
          disk = [OneWell EXCEPT !.history = HistoryFile(rows)]

\* the well-analysis tab is drawn once the history is loaded
NextHistory ==
    \/ LoadData
    \/ /\ cache.history.hit
       /\ \E well \in StationCodes, scipy \in ScipyBuilds : SelectWell(well, scipy)

SpecHistory == InitHistory /\ [][NextHistory]_vars

\* the select boxes of the well-analysis tab: the wells of the region in the
\* order of their names, the chosen option, its parse, the lookup of the
\* parsed code, and the view of the well that was found
ChooseWell(region, k, scipy) ==
    /\ cache.history.hit
    /\ cache.history.value.loaded
    /\ \E unique_wells \in
             sort_values_Station_Name(drop_duplicates_Station_Code(df_history)) :
          LET wells_in_region ==
                  IF region # get_text("all", language)
                  THEN SelectSeq(unique_wells, LAMBDA w : w.Region = region)
                  ELSE unique_wells
              well_options ==
                  [i \in 1..Len(wells_in_region) |-> well_option(wells_in_region[i])]
          IN /\ region \in {get_text("all", language)}
                               \cup {unique_wells[i].Region : i \in 1..Len(unique_wells)}
             /\ IF Len(well_options) = 0
                THEN /\ k = 0
                     /\ well_selection' =
                            [NoSelection EXCEPT !.warning = "no_wells_region"]
                     /\ trend' = NoTrend
                     /\ UNCHANGED df_history
                ELSE /\ k \in 1..Len(well_options)
                     /\ LET selected_well_display == well_options[k]
                            parts == rpartition(selected_well_display, "(")
                            selected_well_name == strip(parts[1])
                            selected_well_code == strip(replace(parts[3], ")"))
                            well_subset ==
                                SelectSeq(unique_wells,
                                          LAMBDA w : w.Station_Code = selected_well_code)
                        IN /\ well_selection' =
                                  [wells_in_region |-> wells_in_region, index |-> k,
                                   selected_well_display |-> selected_well_display,
                                   selected_well_name |-> selected_well_name,
                                   selected_well_code |-> selected_well_code,
                                   well_subset |-> well_subset,
                                   warning |-> IF well_subset = <<>>
                                               THEN "not_found" ELSE "none"]
                           /\ IF well_subset # <<>>
                              THEN /\ trend' = WellAnalysisView(selected_well_code, scipy)
                                   /\ df_history' =
                                          copy_then_assign(df_history,
                                                           trend'.call.df_well)
                              ELSE /\ trend' = NoTrend
                                   /\ UNCHANGED df_history
    /\ UNCHANGED <<np_random, cache, sidebarVars, tab1Vars, censusVars,
                   tab4Vars, layerVars, mapVars, language, get_text_result>>

\* the characters of the names and codes
Characters == {"a", " ", "(", ")"}

\* the longest name and the longest code
MaxNameLen == 2

Strings == SeqsUpTo(Characters, MaxNameLen) \ {<<>>}

\* a history of one well of any name and code, alone or with the well "a (a)"
\* of another region
SelectHistories ==
    LET Row(name, code, region, level) ==
            [Station_Code |-> code, Station_Name |-> name, Region |-> region,
             Date |-> 100, Water_Level |-> level,
             Latitude |-> Santiago.Latitude, Longitude |-> Santiago.Longitude]
    IN UNION {{<<Row(name, code, "R1", 20)>>,
               <<Row(name, code, "R1", 20), Row(<<"a">>, <<"a">>, "R2", 240)>>} :
                 name \in Strings, code \in Strings}

InitSelect ==
    /\ Fresh
    /\ np_random = SomeDraws
    /\ disk = DiskWith(NoFile)
    /\ df_history \in SelectHistories
    /\ cache = StoredHistory(df_history)

NextSelect ==
    \E region \in {"Todos", "R1", "R2"}, k \in 0..2, scipy \in ScipyBuilds :
        ChooseWell(region, k, scipy)

SpecSelect == InitSelect /\ [][NextSelect]_vars

\* the keys and the languages get_text is called with: keys of the tables and
\* a key of neither, the two languages and a language without a table
TextKeys == {"all", "demo_data", "insufficient_data", "no_such_key"}

TextLanguages == {"es", "en", "fr"}

InitLanguage ==
    /\ Fresh
    /\ df_history = <<>>
    /\ cache = EmptyCache
    /\ np_random = SomeDraws
    /\ disk \in {DiskWith(NoFile), OneWell}

NextLanguage ==
    \/ LoadData
    \/ UploadFile
    \/ \E region \in Range(UnitOrder) \cup {All} : SelectRegion(region)
    \/ \E label \in TrendOptions : ToggleTrend(label)
    \/ \E level \in AggLevels : SelectAggLevel(level)
    \/ \E lang \in {"es", "en"} : PressLanguage(lang)
    \/ \E key \in TextKeys, lang \in TextLanguages : GetText(key, lang)

SpecLanguage == InitLanguage /\ [][NextLanguage]_vars

\* the loaders' store: any workbook in data/ at the start, replaced by
\* workbooks of at most one well
EditedWorkbooks ==
    {Workbook(wells, FALSE, TRUE) : wells \in SeqsUpTo(WorkbookRows, 1)}

InitCache ==
    /\ Fresh
    /\ df_history = <<>>
    /\ cache = StoredHistory(df_history)
    /\ np_random = SomeDraws
    /\ disk \in {DiskWith(w) : w \in Workbooks}

NextCache ==
    \/ LoadData
    \/ \E level \in AggLevels : SelectAggLevel(level)
    \/ \E workbook \in EditedWorkbooks : EditWorkbook(workbook)
    \/ Expire

SpecCache == InitCache /\ [][NextCache]_vars

\* the raw tables under the well-analysis view and the sidebar filters
FrameRecords ==
    {r \in HistoryRecords :
        /\ r.Date \in {100, 1561, NA}
        /\ r.Water_Level \in {240, NA}}

InitFrames ==
    /\ Fresh
    /\ np_random = SomeDraws
    /\ \/ /\ disk = OneWell
          /\ df_history \in SeqsUpTo(FrameRecords, MaxRecords)
       \/ /\ df_history = <<>>
          /\ disk \in {DiskWith(w) : w \in Workbooks}
    /\ cache = StoredHistory(df_history)

NextFrames ==
    \/ LoadData
    \/ \E well \in StationCodes, scipy \in ScipyBuilds : SelectWell(well, scipy)
    \/ \E region \in Range(UnitOrder) \cup {All} : SelectRegion(region)
    \/ \E shac \in Range(UnitOrder) \cup {All} : SelectShac(shac)
    \/ \E label \in TrendOptions : ToggleTrend(label)

SpecFrames == InitFrames /\ [][NextFrames]_vars

(***************************************************************************)
(* Properties of the trend estimator and the classifiers                   *)
(***************************************************************************)
\* the rows of the history table that belong to the analysed well and have
\* both a date and a depth
ValidRows == {i \in 1..Len(df_history) :
                 /\ df_history[i].Station_Code = trend.well
                 /\ df_history[i].Date # NA
                 /\ df_history[i].Water_Level # NA}

ValidDates == {df_history[i].Date : i \in ValidRows}

Returned == trend.call.ret = "tuple"

\* C1: the coarse status is Declining iff slope > 0.05, Recovering iff
\* slope < -0.05 and Stable otherwise; +-0.05 themselves are Stable and the
\* sign of the slope never contradicts the label.
C1_CoarseBands ==
    Returned =>
        LET s == trend.call.slope
            label == trend.call.trend_status
        IN /\ label \in {"Declining", "Recovering", "Stable"}
           /\ (label = "Declining") <=> (s.num > 5 * s.den)
           /\ (label = "Recovering") <=> (s.num < (-5) * s.den)
           /\ (s.num > 0 => label # "Recovering")
           /\ (s.num < 0 => label # "Declining")

C1_Witness ==
    /\ Returned
    /\ trend.call.slope = [num |-> 5, den |-> 1]
    /\ trend.call.trend_status = "Stable"

\* the band a numeric slope belongs to when -0.1 is counted with the stable band
FineBandClosed(s) ==
    IF s.num > 50 * s.den THEN "critical_decline"
    ELSE IF s.num > 10 * s.den THEN "moderate_decline"
    ELSE IF s.num > 0 THEN "slight_decline"
    ELSE IF s.num >= (-10) * s.den THEN "stable_level"
    ELSE "recovery"

\* the band a numeric slope belongs to when -0.1 is counted with recovery
FineBandOpen(s) ==
    IF s.num > 50 * s.den THEN "critical_decline"
    ELSE IF s.num > 10 * s.den THEN "moderate_decline"
    ELSE IF s.num > 0 THEN "slight_decline"
    ELSE IF s.num > (-10) * s.den THEN "stable_level"
    ELSE "recovery"

\* C2 as stated: the fine interpretation of a slope is critical above 0.5,
\* moderate in (0.1, 0.5], slight in (0, 0.1], stable in [-0.1, 0] and
\* recovery below -0.1, so -0.1 itself is stable.
C2_FineBands_AsStated ==
    (Returned /\ trend.call.slope.den # 0) =>
        trend.interpretation = FineBandClosed(trend.call.slope)

\* C2 amended: as stated, except that stable is -0.1 < slope <= 0 and recovery
\* is slope <= -0.1, so -0.1 itself is recovery.
C2_FineBands ==
    (Returned /\ trend.call.slope.den # 0) =>
        trend.interpretation = FineBandOpen(trend.call.slope)

C2_Witness ==
    /\ Returned
    /\ trend.call.slope = [num |-> -10, den |-> 1]
    /\ trend.interpretation = "recovery"

\* C3: with fewer than 2 valid records of the well the estimator returns the
\* undefined result; with 2 or more it returns a defined slope and R2 and
\* n = the number of valid records.
C3_InsufficientDataContract ==
    trend.call.ret # "not_called" =>
        /\ (Cardinality(ValidRows) < 2 => trend.call.ret = "None")
        /\ (Cardinality(ValidRows) >= 2 =>
               /\ trend.call.ret = "tuple"
               /\ trend.call.slope.den # 0
               /\ trend.call.r_squared.den # 0
               /\ trend.call.n = Cardinality(ValidRows))

\* C4: 2 or more valid records that all fall on one date give the undefined
\* result: no number is returned and no error escapes.
C4_DegenerateIsUndefined ==
    (/\ trend.call.ret # "not_called"
     /\ Cardinality(ValidRows) >= 2
     /\ Cardinality(ValidDates) = 1) => trend.call.ret = "None"

\* the valid rows lie exactly on one line (at least two dates)
FirstDate == CHOOSE d \in ValidDates : \A e \in ValidDates : d <= e

LastDate == CHOOSE d \in ValidDates : \A e \in ValidDates : d >= e

RowAt(d) == CHOOSE i \in ValidRows : df_history[i].Date = d

Rise == df_history[RowAt(LastDate)].Water_Level - df_history[RowAt(FirstDate)].Water_Level

Run == LastDate - FirstDate

OnOneLine ==
    /\ Cardinality(ValidDates) >= 2
    /\ \A i, j \in ValidRows :
          Run * (df_history[j].Water_Level - df_history[i].Water_Level)
              = Rise * (df_history[j].Date - df_history[i].Date)

RECURSIVE SumOver(_, _)
SumOver(S, f) ==
    IF S = {} THEN 0
    ELSE LET i == CHOOSE k \in S : TRUE IN f[i] + SumOver(S \ {i}, f)

\* elapsed days of every valid row, counted from the earliest valid date
Elapsed == [i \in ValidRows |-> df_history[i].Date - FirstDate]

Depth == [i \in ValidRows |-> df_history[i].Water_Level]

\* the least-squares daily slope of depth on elapsed days
LeastSquaresSlope ==
    LET n == Cardinality(ValidRows)
        Sx == SumOver(ValidRows, Elapsed)
        Sy == SumOver(ValidRows, Depth)
        Sxx == SumOver(ValidRows, [i \in ValidRows |-> Elapsed[i] * Elapsed[i]])
        Sxy == SumOver(ValidRows, [i \in ValidRows |-> Elapsed[i] * Depth[i]])
    IN Frac(n * Sxy - Sx * Sy, n * Sxx - Sx * Sx)

ElapsedDaysRight ==
    /\ Len(trend.call.Days) = Cardinality(ValidRows)
    /\ trend.call.Days[1] = 0
    /\ \A k \in 1..Len(trend.call.Days) :
          /\ trend.call.Days[k] >= 0
          /\ trend.call.Days[k] = trend.call.df_well[k].Date - FirstDate

YearlyOf(daily) == Frac(daily.num * 1461, daily.den * 4)

\* C5 as stated: elapsed time is whole days since the earliest date, the fit
\* is least squares, the reported slope is the daily slope times 365.25, and
\* points on a line of daily slope s give slope s * 365.25 and R2 = 1.
C5_Regression_AsStated ==
    Returned =>
        /\ ElapsedDaysRight
        /\ trend.call.slope = YearlyOf(LeastSquaresSlope)
        /\ (OnOneLine =>
               /\ trend.call.slope = YearlyOf(Frac(Rise, Run))
               /\ trend.call.r_squared = [num |-> 1, den |-> 1])

\* C5 amended: as stated, except that R2 is 1 only for a line of non-zero
\* slope; for points on a flat line (s = 0) the slope is 0 and R2 is 0.
C5_Regression ==
    Returned =>
        /\ ElapsedDaysRight
        /\ trend.call.slope = YearlyOf(LeastSquaresSlope)
        /\ (OnOneLine =>
               /\ trend.call.slope = YearlyOf(Frac(Rise, Run))
               /\ (Rise # 0 => trend.call.r_squared = [num |-> 1, den |-> 1])
               /\ (Rise = 0 => trend.call.r_squared = [num |-> 0, den |-> 1]))

C5_Witness ==
    /\ Returned
    /\ OnOneLine
    /\ Cardinality(ValidDates) = 3
    /\ Rise # 0
    /\ trend.call.r_squared = [num |-> 1, den |-> 1]
    /\ trend.call.slope = [num |-> 5, den |-> 1]

(***************************************************************************)
(* Properties of the spatial aggregation                                   *)
(***************************************************************************)
Granularities == {"Region", "SHAC", "Comuna"}

TableOf(key) ==
    IF key = "Region" THEN piezo_data.regions
    ELSE IF key = "SHAC" THEN piezo_data.shacs
    ELSE piezo_data.comunas

\* the wells (row numbers) of one unit
WellsOf(key, u) == {i \in 1..Len(piezo_data.wells) : piezo_data.wells[i][key] = u}

SlopeColumn == [i \in 1..Len(piezo_data.wells) |-> piezo_data.wells[i].Linear_Slope_m_yr]

\* a well's category: the consensus label when present, else the coarse
\* classification of its own slope (0.05 m/yr is half a tenth)
IsDeclining(w) ==
    IF w.Consensus_Trend # NAText THEN w.Consensus_Trend = "Decreasing"
    ELSE w.Linear_Slope_m_yr # NA /\ 2 * w.Linear_Slope_m_yr > 1

C9_CountsAddUp ==
    piezo_data.demo =>
        \A key \in Granularities :
            SumSeq([k \in 1..Len(TableOf(key)) |-> TableOf(key)[k].Total_Wells])
                = Cardinality({i \in 1..Len(piezo_data.wells) :
                                  piezo_data.wells[i][key] # NAText})

C9_Witness ==
    /\ piezo_data.demo
    /\ Len(piezo_data.regions) = 2
    /\ Len(piezo_data.comunas) = 2
    /\ piezo_data.regions[1].Total_Wells + piezo_data.regions[2].Total_Wells
           = Len(piezo_data.wells)

(***************************************************************************)
(* Properties of the coordinate validation and the map                     *)
(***************************************************************************)
\* both coordinates present, latitude in [-56, -17], longitude in [-76, -66]
InEnvelope(p) ==
    /\ p.Latitude # NA
    /\ p.Longitude # NA
    /\ -5600 <= p.Latitude /\ p.Latitude <= -1700
    /\ -7600 <= p.Longitude /\ p.Longitude <= -6600

\* the rows of a workbook that pass the validation, in the workbook's order
ValidPoints(file) == [data |-> SelectSeq(file.rows, InEnvelope), loaded |-> file.exists]

TenTen == [Latitude |-> 1000, Longitude |-> 1000]

NoLongitude == [Latitude |-> -3345, Longitude |-> NA]

MapLayers == {"wells", "dga_stations", "water_rights", "census_2017", "census_2024"}

\* C7: every marker of every layer of the map lies inside the envelope.
C7_EveryMarkerValid ==
    \A layer \in MapLayers : \A k \in 1..Len(well_map[layer]) :
        InEnvelope(well_map[layer][k])

(***************************************************************************)
(* Properties of the aggregation tab                                       *)
(***************************************************************************)
\* the tables the tab would show for a population of wells
TableFor(wells, level) ==
    LET ranked == sort_values_descending(groupby_agg(wells, level))
    IN IF level = "Region" THEN ranked ELSE {head(df, TableRows) : df \in ranked}

\* C10: the summary table on display is the aggregation of the wells that
\* currently pass the sidebar filters.
C10_TablesFollowPopulation ==
    piezo_data.loaded => df_display \in TableFor(df_filtered, agg_level)

(***************************************************************************)
(* Properties of the three granularities                                   *)
(***************************************************************************)
\* the wells table with the values of two key columns exchanged
SwapKeys(df_wells, a, b) ==
    [i \in 1..Len(df_wells) |->
        [df_wells[i] EXCEPT ![a] = df_wells[i][b], ![b] = df_wells[i][a]]]

\* an aggregate table with its key column renamed
Rekeyed(table, from, to) ==
    [k \in 1..Len(table) |->
        (to :> table[k][from]) @@
        [Total_Wells |-> table[k].Total_Wells,
         Avg_Linear_Slope_m_yr |-> table[k].Avg_Linear_Slope_m_yr,
         Pct_Decreasing_Consensus |-> table[k].Pct_Decreasing_Consensus]]

\* C11: the Region, SHAC and Comuna tables of the generated data are one
\* aggregation applied with three keys: aggregating by one key the wells whose
\* key columns were exchanged gives the table of the other key.
C11_SameAggregation ==
    piezo_data.demo =>
        /\ Rekeyed(df_shacs_of(SwapKeys(piezo_data.wells, "Region", "SHAC")),
                   "SHAC", "Region") = piezo_data.regions
        /\ Rekeyed(df_comunas_of(SwapKeys(piezo_data.wells, "SHAC", "Comuna")),
                   "Comuna", "SHAC") = piezo_data.shacs
        /\ Rekeyed(df_regions_of(SwapKeys(piezo_data.wells, "Comuna", "Region")),
                   "Region", "Comuna") = piezo_data.comunas

\* generated wells whose three tables differ, with a unit that is partly declining
C11_Witness ==
    /\ piezo_data.demo
    /\ Len(piezo_data.regions) = 2
    /\ Len(piezo_data.shacs) = 1
    /\ Rekeyed(piezo_data.comunas, "Comuna", "Region") # piezo_data.regions
    /\ \E k \in 1..Len(piezo_data.comunas) :
          piezo_data.comunas[k].Pct_Decreasing_Consensus = [num |-> 50, den |-> 1]

(***************************************************************************)
(* Properties of the ranking views                                         *)
(***************************************************************************)
\* the rows of a table sorted by mean slope, rows that neither sorts before
\* the other kept in the order of the table
StableSort(table, Before(_, _)) ==
    LET n == Len(table)
        key(i) == table[i].Avg_Linear_Slope_m_yr
        p == CHOOSE q \in [1..n -> 1..n] :
                /\ \A i, j \in 1..n : i # j => q[i] # q[j]
                /\ \A i, j \in 1..n :
                      i < j => \/ Before(key(q[i]), key(q[j]))
                               \/ /\ ~Before(key(q[j]), key(q[i]))
                                  /\ q[i] < q[j]
    IN [i \in 1..n |-> table[p[i]]]

Reverse(s) == [i \in 1..Len(s) |-> s[Len(s) + 1 - i]]

\* every mean slope of the table is defined and no two are equal
DistinctSlopes(table) ==
    /\ \A i \in 1..Len(table) : table[i].Avg_Linear_Slope_m_yr.den # 0
    /\ \A i, j \in 1..Len(table) :
          i # j => table[i].Avg_Linear_Slope_m_yr # table[j].Avg_Linear_Slope_m_yr

\* the regional chart (ascending) and the regional table (descending) hold the
\* same rows
SameRegions ==
    /\ Len(fig_bar) = Len(piezo_data.regions)
    /\ Len(df_display) = Len(piezo_data.regions)
    /\ Range(fig_bar) = Range(piezo_data.regions)
    /\ Range(df_display) = Range(piezo_data.regions)

DecliningWells == SelectSeq(piezo_data.wells, LAMBDA w : w.Consensus_Trend = "Decreasing")

\* C14: with a workbook loaded, the totals of the national summary are the
\* sums of the per-unit values of the loaded tables: total wells is the sum of
\* the regions' well counts, wells declining the number of declining wells,
\* and the two trend slices add up to the total.
C14_TotalsAreSums ==
    (piezo_data.loaded /\ ~piezo_data.demo) =>
        /\ overview.total_wells
               = SumSeq([k \in 1..Len(piezo_data.regions) |->
                            piezo_data.regions[k].Total_Wells])
        /\ overview.wells_declining = Len(DecliningWells)
        /\ overview.wells_declining + overview.wells_not_declining
               = Len(piezo_data.wells)

(***************************************************************************)
(* Claims about the census comparison (under SpecCensus)                   *)
(***************************************************************************)
\* the rows a run holds for the units of the census comparison
ReconciliationRows == census_data.region

\* the columns of a row that hold numbers
NumericColumns(row) == DOMAIN row \ {"Region"}

InBothCensuses(row) == notna(row.Census_2017) /\ notna(row.Census_2024)

\* some column of the row holds the percentage p, where p * a = (b - a) * 100
HoldsPctChange(row) ==
    \E f \in NumericColumns(row) :
        /\ notna(row[f])
        /\ row[f] * row.Census_2017 = (row.Census_2024 - row.Census_2017) * 100

\* C15: after a run that loaded the census comparison, every unit counted in
\* both censuses with a census-A count other than zero has its percentage
\* change (B - A) / A * 100 in its row, and a unit whose census-A count is
\* zero has no percentage (and the run has not ended in an error).
C15_PercentChange ==
    census_data.loaded =>
        \A k \in 1..Len(ReconciliationRows) :
            LET row == ReconciliationRows[k]
            IN InBothCensuses(row) =>
                  IF row.Census_2017 = 0
                  THEN NumericColumns(row) \subseteq {"Census_2017", "Census_2024"}
                  ELSE HoldsPctChange(row)

\* the wells of a unit in the registry
Registry_count(u) ==
    Len(SelectSeq(dga_water_rights.data, LAMBDA r : r.Region = u))

RegistryUnits == {dga_water_rights.data[i].Region : i \in 1..Len(dga_water_rights.data)}

CensusAUnits ==
    {ReconciliationRows[k].Region : k \in {i \in 1..Len(ReconciliationRows) :
                                              notna(ReconciliationRows[i].Census_2017)}}

CensusBUnits ==
    {ReconciliationRows[k].Region : k \in {i \in 1..Len(ReconciliationRows) :
                                              notna(ReconciliationRows[i].Census_2024)}}

InAllSources == RegistryUnits \cap CensusAUnits \cap CensusBUnits

Holds(row, value) == \E f \in NumericColumns(row) : row[f] = value

\* C16: after a run that loaded the registry and the census comparison, the
\* row of every unit that is in all three sources holds its two gaps,
\* Registry - Census A and Registry - Census B.
C16_Gaps ==
    (census_data.loaded /\ dga_water_rights.loaded) =>
        \A k \in 1..Len(ReconciliationRows) :
            LET row == ReconciliationRows[k]
            IN row.Region \in InAllSources =>
                  /\ Holds(row, Registry_count(row.Region) - row.Census_2017)
                  /\ Holds(row, Registry_count(row.Region) - row.Census_2024)

\* the units that are in one source and not in all of them
Unmatched == (RegistryUnits \cup CensusAUnits \cup CensusBUnits) \ InAllSources

\* what load_census_data hands to main besides the three sheets and the flag
ReportFields == DOMAIN census_data \ {"region", "comuna", "shac", "loaded"}

\* C17: after a run that loaded the registry and the census comparison, the
\* units that are not in all three sources are handed to the caller as a
\* list, and the rows of the comparison are the rows of the units that are in
\* all three.
C17_UnmatchedReported ==
    (census_data.loaded /\ dga_water_rights.loaded) =>
        /\ Unmatched # {} => \E f \in ReportFields : Range(census_data[f]) = Unmatched
        /\ {ReconciliationRows[k].Region : k \in 1..Len(ReconciliationRows)}
               = InAllSources

(***************************************************************************)
(* Claims about the well series (under SpecTrend)                          *)
(***************************************************************************)
\* C18: the series handed to the regression holds only the selected station's
\* records, none with a missing date or depth, in ascending order of date,
\* and at most one record per date.
C18_WellSeries ==
    trend.call.ret # "not_called" =>
        LET df_well == trend.call.df_well
        IN /\ \A i \in 1..Len(df_well) :
                 /\ df_well[i].Station_Code = trend.well
                 /\ notna(df_well[i].Date)
                 /\ notna(df_well[i].Water_Level)
           /\ \A i, j \in 1..Len(df_well) :
                 i < j => df_well[i].Date < df_well[j].Date

IsRun == disk' = disk /\ cache' # EmptyCache

\* the wells and the ranking tables are those of the workbook in data/
FromWorkbook(data, workbook) ==
    /\ data.wells = workbook.sheets.wells
    /\ data.regions = workbook.sheets.regions
    /\ data.shacs = workbook.sheets.shacs
    /\ data.comunas = workbook.sheets.comunas

\* C20 as stated: nothing is stored between runs, so every run that loads the
\* wells while a readable workbook is in data/ shows the tables of that
\* workbook as it then is.
C20_NoStaleness_AsStated ==
    [][(IsRun /\ piezo_data'.loaded /\ disk.piezo.exists /\ disk.piezo.readable)
           => FromWorkbook(piezo_data', disk.piezo)]_vars

\* C20: a run that finds the loader's entry in the store shows the stored
\* tables, whatever the workbook in data/ now holds; a run that finds no entry
\* (the first call, or after the time to live) shows the tables of the
\* workbook as it then is.
C20_StoredForTimeToLive ==
    [][(IsRun /\ piezo_data'.loaded) =>
           IF cache.piezo.hit
           THEN piezo_data' = cache.piezo.value.data
           ELSE (disk.piezo.exists /\ disk.piezo.readable)
                    => FromWorkbook(piezo_data', disk.piezo)]_vars

\* the wells were loaded and stored, and the workbook in data/ has since been
\* replaced by one with other wells
C20_Witness ==
    /\ piezo_data.loaded
    /\ cache.piezo.hit
    /\ cache.piezo.value.data = piezo_data
    /\ disk.piezo.exists /\ disk.piezo.readable
    /\ piezo_data.wells # disk.piezo.sheets.wells

(***************************************************************************)
(* Claims about the well-analysis view (under SpecTrend)                   *)
(***************************************************************************)
\* the estimator returned numbers: a slope and an R2 that are not NaN
DefinedResult(call) ==
    /\ call.ret = "tuple"
    /\ call.slope.den # 0
    /\ call.r_squared.den # 0

\* a label that is derived from the slope or from R2 is on the page
SlopeBasedLabel ==
    \/ trend.trend_text # "none"
    \/ trend.interpretation # "none"
    \/ trend.low_r2_note

\* C21: in every run of the well-analysis view the trend metric, the fine
\* interpretation and the low-R2 note are shown only for a defined result of
\* the estimator, and for the undefined result the insufficient-data warning
\* is shown and none of these labels.
C21_UndefinedCheckedBeforeUse ==
    trend.call.ret # "not_called" =>
        /\ SlopeBasedLabel => DefinedResult(trend.call)
        /\ trend.call.ret = "None" =>
               (trend.warning = "insufficient_data" /\ ~SlopeBasedLabel)

(***************************************************************************)
(* Claims about the history loader (under SpecHistory)                     *)
(***************************************************************************)
\* the cells that are not a date in the month-day-year format
BadDates == {<<13, 4, 2000>>, <<2, 30, 2001>>}

\* the rows of the workbook that belong to a well's series: its records with
\* a date that parses and with a level
SeriesRows(well) ==
    {i \in 1..Len(disk.history.rows) :
        /\ disk.history.rows[i].Station_Code = well
        /\ disk.history.rows[i].Fecha_US \in {<<4, 9, 2000>>, <<4, 9, 2004>>}
        /\ notna(disk.history.rows[i].Water_Level)}

\* C22: once the history workbook was read, the load has not failed and has
\* every row of the workbook; a row whose date does not parse has a missing
\* date and is in no fitted series, and the fitted series of a well has all
\* its other records.
C22_UnparseableDateIsMissing ==
    cache.history.hit =>
        /\ cache.history.value.loaded
        /\ Len(df_history) = Len(disk.history.rows)
        /\ \A i \in 1..Len(df_history) :
              /\ df_history[i].Station_Code = disk.history.rows[i].Station_Code
              /\ df_history[i].Water_Level = disk.history.rows[i].Water_Level
              /\ df_history[i].Fecha_US \in BadDates => isna(df_history[i].Date)
              /\ df_history[i].Fecha_US = <<4, 9, 2000>> => df_history[i].Date = 100
              /\ df_history[i].Fecha_US = <<4, 9, 2004>> => df_history[i].Date = 1561
        /\ trend.call.ret # "not_called" =>
              /\ Len(trend.call.df_well) = Cardinality(SeriesRows(trend.well))
              /\ \A k \in 1..Len(trend.call.df_well) :
                    trend.call.df_well[k].Fecha_US \notin BadDates

\* a well with a record whose date does not parse was fitted on its two other
\* records
C22_Witness ==
    /\ trend.call.ret = "tuple"
    /\ trend.call.n = 2
    /\ \E i \in 1..Len(df_history) :
          /\ df_history[i].Station_Code = trend.well
          /\ df_history[i].Fecha_US \in BadDates

(***************************************************************************)
(* Claims about the groups of the aggregation (under SpecAgg)              *)
(***************************************************************************)
\* C23: every row of the region, SHAC and comuna tables counts at least one
\* well, and its unit is the unit of some well of the population.
C23_NoEmptyGroups ==
    piezo_data.demo =>
        \A key \in Granularities :
            \A k \in 1..Len(TableOf(key)) :
                /\ TableOf(key)[k].Total_Wells >= 1
                /\ \E i \in 1..Len(piezo_data.wells) :
                      piezo_data.wells[i][key] = TableOf(key)[k][key]

\* all wells fell into one region, so that the other region has no well
C23_Witness ==
    /\ piezo_data.demo
    /\ Len(piezo_data.regions) = 1
    /\ piezo_data.regions[1].Total_Wells = Len(piezo_data.wells)
    /\ \E u \in UnitDraws : u.Region # piezo_data.regions[1].Region

(***************************************************************************)
(* Claims about the three labels of a slope (under SpecTrend)              *)
(***************************************************************************)
\* the labels that say the water table is declining, and those that say it
\* is recovering
SaysDeclining ==
    {"Declining", "critical_decline", "moderate_decline", "slight_decline"}

SaysRecovering == {"Recovering", "recovery"}

\* the coarse status annotation, the delta text of the trend metric and the
\* fine interpretation message of the last run
LabelsShown == {trend.call.trend_status, trend.trend_text, trend.interpretation}

\* C24: of the three labels shown for one slope, none says declining while
\* another says recovering.
C24_LabelsAgreeInDirection ==
    trend.call.ret = "tuple" =>
        ~(LabelsShown \cap SaysDeclining # {} /\ LabelsShown \cap SaysRecovering # {})

\* a slope above 0 and at most 0.05 m/yr: the annotation says Stable and the
\* two other labels say declining
C24_Witness ==
    /\ trend.call.ret = "tuple"
    /\ FracGt(trend.call.slope, 0)
    /\ ~FracGt(trend.call.slope, 5)
    /\ trend.call.trend_status = "Stable"
    /\ trend.trend_text = "Declining"
    /\ trend.interpretation = "slight_decline"

(***************************************************************************)
(* Claims about the sidebar filters (under SpecApp)                        *)
(***************************************************************************)
\* the well is of the selected region and of the selected SHAC
InSelectedUnits(w) ==
    /\ selected_region = All \/ w.Region = selected_region
    /\ selected_shac = All \/ w.SHAC = selected_shac

\* the filtered wells are the wells of the selected units whose label is one
\* of the selected trends
FilteredByTrend ==
    df_filtered = SelectSeq(piezo_data.wells,
                            LAMBDA w : InSelectedUnits(w)
                                       /\ w.Consensus_Trend \in trend_filter)

DefaultSelection ==
    selected_region = All /\ selected_shac = All /\ trend_filter = TrendOptions

\* C25 as stated: with some trend selected the filtered wells are those of the
\* selected units and trends, and with the default selection they are all
\* wells.
C25_FilterResult_AsStated ==
    (piezo_data.loaded /\ trend_filter # {}) =>
        /\ FilteredByTrend
        /\ DefaultSelection => df_filtered = piezo_data.wells

\* C25: with some trend selected the filtered wells are those of the selected
\* units and trends; with the default selection they are all wells when every
\* well has one of the three labels.
C25_FilterResult ==
    (piezo_data.loaded /\ trend_filter # {}) =>
        /\ FilteredByTrend
        /\ (/\ DefaultSelection
            /\ \A i \in 1..Len(piezo_data.wells) :
                  piezo_data.wells[i].Consensus_Trend \in TrendOptions)
               => df_filtered = piezo_data.wells

\* a region, a SHAC and two trends are selected, and some wells pass and some
\* do not
C25_Witness ==
    /\ piezo_data.loaded
    /\ selected_region # All
    /\ selected_shac # All
    /\ Cardinality(trend_filter) = 2
    /\ Len(df_filtered) >= 1
    /\ Len(df_filtered) < Len(piezo_data.wells)

\* the wells of the selected units whose label is one of `trends`
WellsWithTrend(trends) ==
    {w \in Range(piezo_data.wells) :
        InSelectedUnits(w) /\ w.Consensus_Trend \in trends}

\* C26: with no trend selected the filtered wells are all wells of the
\* selected units, with any label or none, and so include the wells that any
\* selection of trends would show.
C26_EmptyTrendSelection ==
    (piezo_data.loaded /\ trend_filter = {}) =>
        /\ df_filtered = SelectSeq(piezo_data.wells, InSelectedUnits)
        /\ \A trends \in SUBSET TrendOptions :
              WellsWithTrend(trends) \subseteq Range(df_filtered)

\* no trend is selected and a well without a label is among the filtered wells
C26_Witness ==
    /\ piezo_data.loaded
    /\ trend_filter = {}
    /\ \E i \in 1..Len(df_filtered) : df_filtered[i].Consensus_Trend = NAText
    /\ \E i \in 1..Len(df_filtered) : df_filtered[i].Consensus_Trend \in TrendOptions

(***************************************************************************)
(* Claims about load_piezometric_data (under SpecApp)                      *)
(***************************************************************************)
\* C27: after every run that called load_piezometric_data the wells are
\* loaded, and they are the demo data exactly when no workbook was loaded.
C27_AlwaysUsableData ==
    (cache.piezo.hit \/ piezo_file # "None") =>
        /\ piezo_data.loaded
        /\ piezo_data.demo <=> ~(disk.piezo.exists /\ disk.piezo.readable)


\* C28: the parse of the chosen option gives back the code and the name of the
\* well the option was built from, that well is found, and it is the well whose
\* information and series are shown.
C28_SelectionRoundTrip ==
    well_selection.index > 0 =>
        LET x == well_selection.wells_in_region[well_selection.index]
        IN /\ well_selection.selected_well_code = x.Station_Code
           /\ well_selection.selected_well_name = x.Station_Name
           /\ well_selection.well_subset # <<>>
           /\ well_selection.well_subset[1] = x
           /\ trend.well = x.Station_Code

(***************************************************************************)
(* Claims about the language (under SpecLanguage)                           *)
(***************************************************************************)
\* the text the claim gives for a call: the entry of the language's table, of
\* the Spanish table for a language without one, and the key where the table
\* has no entry
TextAsClaimed(key, lang) ==
    LET table == IF lang \in {"es", "en"} THEN TRANSLATIONS[lang]
                 ELSE TRANSLATIONS["es"]
    IN IF key \in DOMAIN table THEN table[key] ELSE key

\* C29: the language is 'es' at the start and always 'es' or 'en'; it changes
\* only in a step of a language button, to that button's language; get_text
\* never fails: it returns the entry of the Spanish table for an unknown
\* language and the key itself for a key the table does not have.
C29_Language ==
    /\ language = "es"
    /\ [](language \in {"es", "en"})
    /\ [][language' # language => PressLanguage(language')]_vars
    /\ [](get_text_result # NoText =>
             get_text_result.text =
                 TextAsClaimed(get_text_result.key, get_text_result.lang))

\* English is shown after the button, and get_text was called with a language
\* that has no table and a key that no table has
C29_Witness ==
    /\ language = "en"
    /\ piezo_data.loaded
    /\ get_text_result = [key |-> "no_such_key", lang |-> "fr", text |-> "no_such_key"]

====
